---- MODULE Spec2Model ----
(***************************************************************************)
(* Model of mcp-servers/langchain/mcp_server.py: the stdio JSON-RPC        *)
(* session of McpServer (construction, handshake, read loop, dispatch and  *)
(* the built-in handlers), with the JSON codec modelled on both sides of   *)
(* the wire.                                                               *)
(***************************************************************************)
EXTENDS Integers, Sequences, FiniteSets, TLC

(***************************************************************************)
(* Bounds of the model.                                                    *)
(***************************************************************************)
\* number of non-empty lines the peer sends in one run
MaxRequests == 2
\* length, in characters, of the message strings given to the echo tool
MaxStrLen == 1

(***************************************************************************)
(* Python values.  A str is a sequence of characters; a character is       *)
(* either a run of plain text that JSON writes as itself ("ping") or one   *)
(* of the special characters below.  A dict is the ordered sequence of its *)
(* key/value pairs; keys are plain text.                                   *)
(***************************************************************************)
QUOTE == "\""
BACKSLASH == "\\"
EACUTE == "U+00E9"

PyNone == [type |-> "NoneType"]
PyInt(n) == [type |-> "int", n |-> n]
\* a float is held as its number of halves: PyFloat(3) is 1.5
PyFloat(h) == [type |-> "float", h |-> h]
PyStr(s) == [type |-> "str", s |-> s]
PyList(items) == [type |-> "list", items |-> items]
PyDict(pairs) == [type |-> "dict", pairs |-> pairs]
Pair(k, v) == [k |-> k, v |-> v]
\* the str made of one run of plain text
Text(w) == PyStr(<<w>>)
EmptyStr == PyStr(<<>>)

\* dict.keys()
Keys(d) == {d.pairs[i].k : i \in 1..Len(d.pairs)}

\* dict.get(key, default): the value of the last pair stored under key
Get(d, key, default) ==
    IF key \in Keys(d)
    THEN LET i == CHOOSE j \in 1..Len(d.pairs) :
                     /\ d.pairs[j].k = key
                     /\ \A m \in (j+1)..Len(d.pairs) : d.pairs[m].k # key
         IN d.pairs[i].v
    ELSE default

(***************************************************************************)
(* JSON text.  A document on the wire is a tree of wire values: a number   *)
(* is its literal (a sequence of characters), a string is a sequence of    *)
(* units, each the encoding of one character.  Garbage stands for a line   *)
(* that is not JSON at all (a blank line, "nope").                         *)
(***************************************************************************)
WNull == [t |-> "null"]
WNum(lit) == [t |-> "number", lit |-> lit]
WStr(units) == [t |-> "string", units |-> units]
WArr(items) == [t |-> "array", items |-> items]
WObj(members) == [t |-> "object", members |-> members]
Garbage == [t |-> "garbage"]
WText(w) == WStr(<<w>>)

ESC_QUOTE == "\\\""
ESC_BACKSLASH == "\\\\"
ESC_EACUTE == "\\u00e9"

Digits == <<"0", "1", "2", "3", "4", "5", "6", "7", "8", "9">>
DigitVal(c) == (CHOOSE i \in 1..10 : Digits[i] = c) - 1

RECURSIVE ParseNat(_)
ParseNat(cs) ==
    IF cs = <<>> THEN 0
    ELSE 10 * ParseNat(SubSeq(cs, 1, Len(cs) - 1)) + DigitVal(cs[Len(cs)])

RECURSIVE NatRepr(_)
NatRepr(n) ==
    IF n < 10 THEN <<Digits[n + 1]>>
    ELSE NatRepr(n \div 10) \o <<Digits[(n % 10) + 1]>>

IsFloatLit(lit) == \E i \in 1..Len(lit) : lit[i] = "."

\* json.loads of a number literal: int without a fraction, float with one
\* (the literals of the model carry one fraction digit, 0 or 5)
ParseNumber(lit) ==
    LET neg == lit[1] = "-"
        body == IF neg THEN Tail(lit) ELSE lit
    IN IF IsFloatLit(lit)
       THEN LET dot == CHOOSE i \in 1..Len(body) : body[i] = "."
                whole == ParseNat(SubSeq(body, 1, dot - 1))
                half == IF body[dot + 1] = "5" THEN 1 ELSE 0
                h == 2 * whole + half
            IN PyFloat(IF neg THEN 0 - h ELSE h)
       ELSE LET n == ParseNat(body)
            IN PyInt(IF neg THEN 0 - n ELSE n)

\* int.__repr__ and float.__repr__, as json.dumps writes numbers
IntRepr(n) == IF n < 0 THEN <<"-">> \o NatRepr(0 - n) ELSE NatRepr(n)
FloatRepr(h) ==
    LET a == IF h < 0 THEN 0 - h ELSE h
    IN (IF h < 0 THEN <<"-">> ELSE <<>>)
       \o NatRepr(a \div 2) \o <<".", IF a % 2 = 1 THEN "5" ELSE "0">>

\* json.loads of one unit of a string
DecodeUnit(u) ==
    CASE u = ESC_QUOTE -> QUOTE
      [] u = ESC_BACKSLASH -> BACKSLASH
      [] u = ESC_EACUTE -> EACUTE
      [] OTHER -> u

\* json.dumps of one character (ensure_ascii is on by default)
EncodeChar(c) ==
    CASE c = QUOTE -> ESC_QUOTE
      [] c = BACKSLASH -> ESC_BACKSLASH
      [] c = EACUTE -> ESC_EACUTE
      [] OTHER -> c

RECURSIVE json_loads(_)
json_loads(w) ==
    CASE w.t = "null" -> PyNone
      [] w.t = "number" -> ParseNumber(w.lit)
      [] w.t = "string" ->
            PyStr([i \in 1..Len(w.units) |-> DecodeUnit(w.units[i])])
      [] w.t = "array" ->
            PyList([i \in 1..Len(w.items) |-> json_loads(w.items[i])])
      [] w.t = "object" ->
            PyDict([i \in 1..Len(w.members) |->
                      Pair(w.members[i].k, json_loads(w.members[i].v))])

\* json.loads raises JSONDecodeError on a line that is not JSON
JSONDecodeError(w) == w.t = "garbage"

RECURSIVE json_dumps(_)
json_dumps(v) ==
    CASE v.type = "NoneType" -> WNull
      [] v.type = "int" -> WNum(IntRepr(v.n))
      [] v.type = "float" -> WNum(FloatRepr(v.h))
      [] v.type = "str" ->
            WStr([i \in 1..Len(v.s) |-> EncodeChar(v.s[i])])
      [] v.type = "list" ->
            WArr([i \in 1..Len(v.items) |-> json_dumps(v.items[i])])
      [] v.type = "dict" ->
            WObj([i \in 1..Len(v.pairs) |->
                    Pair(v.pairs[i].k, json_dumps(v.pairs[i].v))])

(***************************************************************************)
(* Program constants.                                                      *)
(***************************************************************************)
\* the code of the error the read loop builds for an unregistered method
METHOD_NOT_FOUND == -32601
\* the code invoke_tool gives JsonRpcError for an unknown tool name
UNKNOWN_TOOL == -32001

(***************************************************************************)
(* What a call produced: the value returned, or the exception raised, with *)
(* the parts of the tools that ran, the message lists handed to the chat   *)
(* backend and the value of _shutdown_requested after the call.            *)
(***************************************************************************)
Returned(result, executed, backend, flag) ==
    [raised |-> "", code |-> 0, result |-> result, executed |-> executed,
     backend |-> backend, flag |-> flag]
Raised(exc, code, executed, backend, flag) ==
    [raised |-> exc, code |-> code, result |-> PyNone, executed |-> executed,
     backend |-> backend, flag |-> flag]

(***************************************************************************)
(* The handlers.                                                           *)
(***************************************************************************)
Property(type, description) ==
    PyDict(<<Pair("type", Text(type)), Pair("description", Text(description))>>)

ToolCatalog ==
    PyList(<<
      PyDict(<<
        Pair("name", Text("echo")),
        Pair("description", Text("Echo back the input message")),
        Pair("parameters", PyDict(<<
          Pair("type", Text("object")),
          Pair("properties", PyDict(<<
            Pair("message", Property("string", "Message to echo back"))>>)),
          Pair("required", PyList(<<Text("message")>>))>>))>>),
      PyDict(<<
        Pair("name", Text("add")),
        Pair("description", Text("Add two numbers")),
        Pair("parameters", PyDict(<<
          Pair("type", Text("object")),
          Pair("properties", PyDict(<<
            Pair("a", Property("number", "First number")),
            Pair("b", Property("number", "Second number"))>>)),
          Pair("required", PyList(<<Text("a"), Text("b")>>))>>))>>),
      PyDict(<<
        Pair("name", Text("chat")),
        Pair("description", Text("Chat with LangChain model")),
        Pair("parameters", PyDict(<<
          Pair("type", Text("object")),
          Pair("properties", PyDict(<<
            Pair("messages", PyDict(<<
              Pair("type", Text("array")),
              Pair("items", PyDict(<<
                Pair("type", Text("object")),
                Pair("properties", PyDict(<<
                  Pair("role", PyDict(<<Pair("type", Text("string"))>>)),
                  Pair("content", PyDict(<<Pair("type", Text("string"))>>))
                  >>))>>))>>))>>)),
          Pair("required", PyList(<<Text("messages")>>))>>))>>)
    >>)

list_tools(flag) ==
    Returned(PyDict(<<Pair("tools", ToolCatalog)>>), {}, <<>>, flag)

ping(flag) == Returned(Text("pong"), {}, <<>>, flag)

\* shutdown that forgets to set the flag
shutdown_forgets_flag(flag) == Returned(Text("shutting down"), {}, <<>>, flag)

shutdown(flag) == Returned(Text("shutting down"), {}, <<>>, TRUE)

\* hasattr(v, "get"): of the values json.loads builds, only a dict has it
HasGet(v) == v.type = "dict"

\* the characters of a str spell a number that float() reads
IsNumberText(cs) ==
    LET body == IF cs # <<>> /\ cs[1] = "-" THEN Tail(cs) ELSE cs
        isDigit(c) == \E i \in 1..10 : Digits[i] = c
        dots == {i \in 1..Len(body) : body[i] = "."}
    IN /\ body # <<>>
       /\ \A i \in 1..Len(body) : isDigit(body[i]) \/ body[i] = "."
       /\ \/ dots = {}
          \/ /\ dots = {Len(body) - 1}
             /\ Len(body) >= 3
             /\ body[Len(body)] \in {"0", "5"}

\* the exception float(v) raises, "" when it returns
FloatRaises(v) ==
    CASE v.type \in {"int", "float"} -> ""
      [] v.type = "str" -> IF IsNumberText(v.s) THEN "" ELSE "ValueError"
      [] OTHER -> "TypeError"

\* float(v), in halves
FloatOf(v) ==
    CASE v.type = "int" -> 2 * v.n
      [] v.type = "float" -> v.h
      [] v.type = "str" ->
            LET x == ParseNumber(v.s)
            IN IF x.type = "int" THEN 2 * x.n ELSE x.h

\* what iterating over v yields, for the values that can be iterated
Iter(v) ==
    CASE v.type = "list" -> v.items
      [] v.type = "str" -> [i \in 1..Len(v.s) |-> PyStr(<<v.s[i]>>)]
      [] v.type = "dict" -> [i \in 1..Len(v.pairs) |-> Text(v.pairs[i].k)]

Iterable(v) == v.type \in {"list", "str", "dict"}

LcMessage(cls, content) == [cls |-> cls, content |-> content]

\* a conversion that passes a message of an unknown role on as a user message
RECURSIVE lc_messages_keeps_unknown(_, _)
lc_messages_keeps_unknown(messages, n) ==
    IF n = 0 THEN <<>>
    ELSE LET msg == messages[n]
             role == Get(msg, "role", PyNone)
             content == Get(msg, "content", PyNone)
             before == lc_messages_keeps_unknown(messages, n - 1)
         IN CASE role = Text("system") ->
                     Append(before, LcMessage("SystemMessage", content))
              [] role = Text("assistant") ->
                     Append(before, LcMessage("AIMessage", content))
              [] OTHER -> Append(before, LcMessage("HumanMessage", content))

\* the loop of lines 208-217 over the first n messages
RECURSIVE lc_messages(_, _)
lc_messages(messages, n) ==
    IF n = 0 THEN <<>>
    ELSE LET msg == messages[n]
             role == Get(msg, "role", PyNone)
             content == Get(msg, "content", PyNone)
             before == lc_messages(messages, n - 1)
         IN CASE role = Text("system") ->
                     Append(before, LcMessage("SystemMessage", content))
              [] role = Text("assistant") ->
                     Append(before, LcMessage("AIMessage", content))
              [] role = Text("user") ->
                     Append(before, LcMessage("HumanMessage", content))
              [] OTHER -> before

\* tool_echo reading the wrong key of arguments
tool_echo_wrong_key(arguments, flag) ==
    IF ~HasGet(arguments)
    THEN Raised("AttributeError", 0, {"echo"}, <<>>, flag)
    ELSE Returned(PyDict(<<Pair("echo", Get(arguments, "msg", EmptyStr))>>),
                  {"echo"}, <<>>, flag)

\* invoke_tool, the echo branch (line 200)
tool_echo(arguments, flag) ==
    IF ~HasGet(arguments)
    THEN Raised("AttributeError", 0, {"echo"}, <<>>, flag)
    ELSE Returned(PyDict(<<Pair("echo", Get(arguments, "message", EmptyStr))>>),
                  {"echo"}, <<>>, flag)

\* tool_add subtracting
tool_add_subtracts(arguments, flag) ==
    IF ~HasGet(arguments)
    THEN Raised("AttributeError", 0, {"add"}, <<>>, flag)
    ELSE LET a == Get(arguments, "a", PyInt(0))
             b == Get(arguments, "b", PyInt(0))
         IN IF FloatRaises(a) # ""
            THEN Raised(FloatRaises(a), 0, {"add"}, <<>>, flag)
            ELSE IF FloatRaises(b) # ""
            THEN Raised(FloatRaises(b), 0, {"add"}, <<>>, flag)
            ELSE Returned(PyDict(<<Pair("sum", PyFloat(FloatOf(a) - FloatOf(b)))>>),
                          {"add"}, <<>>, flag)

\* invoke_tool, the add branch (lines 202-204)
tool_add(arguments, flag) ==
    IF ~HasGet(arguments)
    THEN Raised("AttributeError", 0, {"add"}, <<>>, flag)
    ELSE LET a == Get(arguments, "a", PyInt(0))
             b == Get(arguments, "b", PyInt(0))
         IN IF FloatRaises(a) # ""
            THEN Raised(FloatRaises(a), 0, {"add"}, <<>>, flag)
            ELSE IF FloatRaises(b) # ""
            THEN Raised(FloatRaises(b), 0, {"add"}, <<>>, flag)
            ELSE Returned(PyDict(<<Pair("sum", PyFloat(FloatOf(a) + FloatOf(b)))>>),
                          {"add"}, <<>>, flag)

\* invoke_tool, the chat branch (lines 206-220); reply is what the backend
\* does when agenerate is awaited
tool_chat(arguments, reply, flag) ==
    IF ~HasGet(arguments)
    THEN Raised("AttributeError", 0, {"chat"}, <<>>, flag)
    ELSE LET messages == Get(arguments, "messages", PyList(<<>>))
         IN IF ~Iterable(messages)
            THEN Raised("TypeError", 0, {"chat"}, <<>>, flag)
            ELSE IF \E i \in 1..Len(Iter(messages)) : ~HasGet(Iter(messages)[i])
            THEN Raised("AttributeError", 0, {"chat"}, <<>>, flag)
            ELSE LET sent == lc_messages(Iter(messages), Len(Iter(messages)))
                 IN IF reply.ok
                    THEN Returned(PyDict(<<Pair("response", reply.text)>>),
                                  {"chat", "agenerate"}, <<sent>>, flag)
                    ELSE Raised("BackendError", 0, {"chat", "agenerate"},
                                <<sent>>, flag)

invoke_tool(name, arguments, reply, flag) ==
    IF name = Text("echo") THEN tool_echo(arguments, flag)
    ELSE IF name = Text("add") THEN tool_add(arguments, flag)
    ELSE IF name = Text("chat") THEN tool_chat(arguments, reply, flag)
    ELSE Raised("JsonRpcError", UNKNOWN_TOOL, {}, <<>>, flag)

\* handler(**params): binding the keyword arguments, then the body
Call(handler, params, reply, flag) ==
    IF params.type # "dict" THEN Raised("TypeError", 0, {}, <<>>, flag)
    ELSE IF "self" \in Keys(params) THEN Raised("TypeError", 0, {}, <<>>, flag)
    ELSE CASE handler = "list_tools" -> list_tools(flag)
           [] handler = "ping" -> ping(flag)
           [] handler = "shutdown" -> shutdown(flag)
           [] handler = "invoke_tool" ->
                 IF Keys(params) # {"name", "arguments"}
                 THEN Raised("TypeError", 0, {}, <<>>, flag)
                 ELSE invoke_tool(Get(params, "name", PyNone),
                                  Get(params, "arguments", PyNone), reply, flag)

(***************************************************************************)
(* The peer: the lines it can send and what the chat backend can do.       *)
(***************************************************************************)
Absent == [t |-> "absent"]

\* the members of an object, leaving out those that are absent
Members(pairs) ==
    SelectSeq(pairs, LAMBDA p : p.v # Absent)

\* a request line as test_rpc.py writes it
Req(id, method, params) ==
    WObj(Members(<<Pair("jsonrpc", WText("2.0")), Pair("method", method),
                   Pair("id", id), Pair("params", params)>>))

WInt7 == WNum(<<"7">>)

Ids == {Absent, WNull, WInt7, WNum(<<"1", ".", "5">>), WText("7")}

RegisteredNames == {"list_tools", "invoke_tool", "ping", "shutdown"}

\* what the peer puts in the method member
MethodChoices ==
    {WText(m) : m \in RegisteredNames \cup {"bogus"}}
        \cup {Absent, WNull, WArr(<<>>), WStr(<<>>)}

WireUnits == {ESC_QUOTE, EACUTE}

RECURSIVE UnitSeqs(_)
UnitSeqs(n) ==
    IF n = 0 THEN {<<>>}
    ELSE UnitSeqs(n - 1)
           \cup {Append(s, u) : s \in {x \in UnitSeqs(n - 1) : Len(x) = n - 1},
                                u \in WireUnits}

\* the strings sent as the message of echo
Messages ==
    {WStr(us) : us \in UnitSeqs(MaxStrLen)}
        \cup {WText("Hello, MCP!"), WStr(<<ESC_BACKSLASH, ESC_EACUTE>>)}

ToolCall(name, arguments) ==
    WObj(Members(<<Pair("name", name), Pair("arguments", arguments)>>))

ChatMessage(role, content) ==
    WObj(<<Pair("role", WText(role)), Pair("content", WText(content))>>)

EchoParams ==
    {ToolCall(WText("echo"), WObj(<<Pair("message", m)>>)) : m \in Messages}
      \cup {ToolCall(WText("echo"), WObj(<<>>)),
            ToolCall(WText("echo"), WText("Hello, MCP!"))}

AddParams ==
    {ToolCall(WText("add"), WObj(<<Pair("a", WNum(<<"4", "0">>)), Pair("b", WNum(<<"2">>))>>)),
     ToolCall(WText("add"), WObj(<<Pair("a", WNum(<<"2">>)), Pair("b", WNum(<<"4", "0">>))>>)),
     ToolCall(WText("add"), WObj(<<Pair("a", WNum(<<"1", ".", "5">>)), Pair("b", WNum(<<"2", ".", "5">>))>>)),
     ToolCall(WText("add"), WObj(<<Pair("b", WNum(<<"2">>))>>)),
     ToolCall(WText("add"), WObj(<<Pair("a", WText("forty")), Pair("b", WNum(<<"2">>))>>)),
     ToolCall(WText("add"), WObj(<<Pair("a", WNum(<<"2">>)), Pair("b", WNull)>>))}

ChatParams ==
    {ToolCall(WText("chat"), WObj(<<Pair("messages", WArr(<<
        ChatMessage("system", "be brief"), ChatMessage("tool", "ignored"),
        ChatMessage("user", "hi"), ChatMessage("assistant", "hello")>>))>>)),
     ToolCall(WText("chat"), WObj(<<>>)),
     ToolCall(WText("chat"), WObj(<<Pair("messages", WNull)>>)),
     ToolCall(WText("chat"), WObj(<<Pair("messages", WArr(<<WText("hi")>>))>>))}

OtherToolParams ==
    {ToolCall(WText("bogus"), WObj(<<>>)),
     ToolCall(WText("Echo"), WObj(<<Pair("message", WText("Hello, MCP!"))>>)),
     ToolCall(WInt7, WObj(<<>>)),
     ToolCall(WText("echo"), Absent),
     ToolCall(Absent, WObj(<<>>)),
     WObj(<<Pair("name", WText("echo")), Pair("arguments", WObj(<<>>)),
            Pair("extra", WInt7)>>)}

\* lines that are JSON but not an object
NonObjects == {WArr(<<>>), WInt7, WText("ping"), WNull}

Lines ==
    {Garbage} \cup NonObjects
      \cup {Req(WInt7, m, Absent) : m \in MethodChoices}
      \cup {Req(id, WText(m), Absent) : id \in Ids, m \in {"ping", "shutdown"}}
      \cup {Req(WText("7"), WText("bogus"), WArr(<<>>)),
            Req(WInt7, WText("bogus"), WObj(<<Pair("self", WInt7)>>)),
            Req(WInt7, WText("list_tools"), WObj(<<>>)),
            Req(WInt7, WText("list_tools"), WObj(<<Pair("self", WInt7)>>)),
            Req(WInt7, WText("ping"), WObj(<<Pair("extra", WInt7)>>)),
            Req(WInt7, WText("ping"), WObj(<<Pair("self", WInt7)>>)),
            Req(WInt7, WText("ping"), WNull),
            Req(WInt7, WText("shutdown"), WObj(<<Pair("extra", WInt7)>>)),
            Req(WInt7, WText("shutdown"), WObj(<<Pair("self", WInt7)>>)),
            Req(WInt7, WText("shutdown"), WArr(<<>>)),
            Req(WInt7, WText("invoke_tool"), WObj(<<>>)),
            Req(WInt7, WText("invoke_tool"), WArr(<<>>)),
            Req(WText("7"), WText("invoke_tool"), ToolCall(WText("bogus"), WObj(<<>>)))}
      \cup {Req(WInt7, WText("invoke_tool"), p) :
                p \in EchoParams \cup AddParams \cup ChatParams \cup OtherToolParams}

\* what awaiting chat_model.agenerate can do: return a text, or raise
BackendReplies ==
    {[ok |-> TRUE, text |-> PyStr(<<"Hi ", QUOTE>>)], [ok |-> FALSE, text |-> EmptyStr]}

(***************************************************************************)
(* The server.                                                             *)
(***************************************************************************)
VARIABLES
    pc,                 \* where the process is
    shutdown_requested, \* self._shutdown_requested
    methods,            \* self._methods
    chat_model,         \* self.chat_model, "" before it is assigned
    stdin_eof,          \* the peer has closed the input
    stdout,             \* the frames written to the output, in order
    raw, mid, method, params, resp,   \* the locals of _read_loop
    history             \* one entry for each line read, in order

vars == <<pc, shutdown_requested, methods, chat_model, stdin_eof, stdout,
          raw, mid, method, params, resp, history>>

NoLine == [t |-> "none"]

Init ==
    /\ pc = "init"
    /\ shutdown_requested = FALSE
    /\ methods = PyDict(<<>>)
    /\ chat_model = ""
    /\ stdin_eof = FALSE
    /\ stdout = <<>>
    /\ raw = NoLine
    /\ mid = PyNone
    /\ method = PyNone
    /\ params = PyNone
    /\ resp = PyNone
    /\ history = <<>>

Registry ==
    PyDict(<<Pair("list_tools", "list_tools"), Pair("invoke_tool", "invoke_tool"),
             Pair("ping", "ping"), Pair("shutdown", "shutdown")>>)

\* a constructor that swallows the failure and goes on to run()
McpServer_init_swallows ==
    /\ pc = "init"
    /\ \E connected \in BOOLEAN :
         /\ chat_model' = IF connected THEN "ChatOllama" ELSE chat_model
         /\ shutdown_requested' = FALSE
         /\ methods' = Registry
         /\ pc' = "run"
    /\ UNCHANGED <<stdin_eof, stdout, raw, mid, method, params, resp, history>>

\* McpServer(): the connectivity check and the model construction succeed,
\* or the exception is re-raised and the process ends before run()
McpServer_init ==
    /\ pc = "init"
    /\ \E connected \in BOOLEAN :
         IF connected
         THEN /\ chat_model' = "ChatOllama"
              /\ shutdown_requested' = FALSE
              /\ methods' = Registry
              /\ pc' = "run"
         ELSE /\ pc' = "fatal"
              /\ UNCHANGED <<shutdown_requested, methods, chat_model>>
    /\ UNCHANGED <<stdin_eof, stdout, raw, mid, method, params, resp, history>>

\* a handshake that leaves a registered method out of the capabilities
HandshakeMsg_fewer_capabilities ==
    PyDict(<<
      Pair("jsonrpc", Text("2.0")),
      Pair("method", Text("mcp/server_ready")),
      Pair("id", PyInt(0)),
      Pair("params", PyDict(<<
        Pair("name", Text("langchain-mcp")),
        Pair("version", Text("0.1.0")),
        Pair("protocols", PyList(<<Text("mcp/1.0")>>)),
        Pair("capabilities", PyList(<<Text("list_tools"), Text("invoke_tool"),
                                      Text("ping")>>))>>))>>)

HandshakeMsg ==
    PyDict(<<
      Pair("jsonrpc", Text("2.0")),
      Pair("method", Text("mcp/server_ready")),
      Pair("id", PyInt(0)),
      Pair("params", PyDict(<<
        Pair("name", Text("langchain-mcp")),
        Pair("version", Text("0.1.0")),
        Pair("protocols", PyList(<<Text("mcp/1.0")>>)),
        Pair("capabilities", PyList(<<Text("list_tools"), Text("invoke_tool"),
                                      Text("ping"), Text("shutdown")>>))>>))>>)

\* run() entering the loop without the handshake
send_handshake_skipped ==
    /\ pc = "run"
    /\ pc' = "readline"
    /\ UNCHANGED <<shutdown_requested, methods, chat_model, stdin_eof, stdout,
                   raw, mid, method, params, resp, history>>

\* run(), first statement
send_handshake ==
    /\ pc = "run"
    /\ stdout' = Append(stdout, json_dumps(HandshakeMsg))
    /\ pc' = "readline"
    /\ UNCHANGED <<shutdown_requested, methods, chat_model, stdin_eof,
                   raw, mid, method, params, resp, history>>

Entry(line) ==
    [raw |-> line, handler |-> "", executed |-> {}, raised |-> "", code |-> 0,
     backend |-> <<>>, flag_in |-> shutdown_requested,
     flag_out |-> shutdown_requested, frame |-> 0]

\* a loop that leaves when the read returns b""
ReadLine_eof_terminates ==
    /\ pc = "readline"
    /\ \/ /\ ~stdin_eof
          /\ Len(history) < MaxRequests
          /\ \E line \in Lines :
               /\ raw' = line
               /\ history' = Append(history, Entry(line))
          /\ pc' = "dispatch"
          /\ UNCHANGED stdin_eof
       \/ /\ stdin_eof' = TRUE
          /\ raw' = NoLine
          /\ pc' = "done"
          /\ UNCHANGED history
    /\ UNCHANGED <<shutdown_requested, methods, chat_model, stdout,
                   mid, method, params, resp>>

\* _read_loop, lines 170-173: a line arrives, or the read returns b"" because
\* the peer has closed the input, and the loop sleeps and reads again
ReadLine ==
    /\ pc = "readline"
    /\ \/ /\ ~stdin_eof
          /\ Len(history) < MaxRequests
          /\ \E line \in Lines :
               /\ raw' = line
               /\ history' = Append(history, Entry(line))
          /\ pc' = "dispatch"
          /\ UNCHANGED stdin_eof
       \/ /\ stdin_eof' = TRUE
          /\ raw' = NoLine
          /\ UNCHANGED <<pc, history>>
    /\ UNCHANGED <<shutdown_requested, methods, chat_model, stdout,
                   mid, method, params, resp>>

\* a value no dict can hold as a key
Unhashable(v) == v.type \in {"list", "dict"}

\* a lookup that falls back to a registered handler
Lookup_fallback(registry, m) ==
    IF m.type = "str" /\ Len(m.s) = 1 /\ m.s[1] \in Keys(registry)
    THEN Get(registry, m.s[1], "")
    ELSE "ping"

\* a lookup that takes a missing method for ping
Lookup_none_pings(registry, m) ==
    IF m.type = "str" /\ Len(m.s) = 1 /\ m.s[1] \in Keys(registry)
    THEN Get(registry, m.s[1], "")
    ELSE IF m.type = "NoneType" THEN "ping" ELSE ""

\* self._methods.get(method): the name of the handler, "" for None
Lookup(registry, m) ==
    IF m.type = "str" /\ Len(m.s) = 1 /\ m.s[1] \in Keys(registry)
    THEN Get(registry, m.s[1], "")
    ELSE ""

\* str(v), for the values that reach the f-string of line 184
StrOf(v) ==
    CASE v.type = "str" -> v.s
      [] v.type = "NoneType" -> <<"None">>
      [] v.type = "int" -> IntRepr(v.n)
      [] v.type = "float" -> FloatRepr(v.h)

\* an error response that carries a result member too
ErrorResp_with_result(code, message, id) ==
    PyDict(<<Pair("jsonrpc", Text("2.0")),
             Pair("result", PyNone),
             Pair("error", PyDict(<<Pair("code", PyInt(code)),
                                    Pair("message", message)>>)),
             Pair("id", id)>>)

ErrorResp(code, message, id) ==
    PyDict(<<Pair("jsonrpc", Text("2.0")),
             Pair("error", PyDict(<<Pair("code", PyInt(code)),
                                    Pair("message", message)>>)),
             Pair("id", id)>>)

\* a response that does not echo the id
ResultResp_null_id(result, id) ==
    PyDict(<<Pair("jsonrpc", Text("2.0")), Pair("result", result), Pair("id", PyNone)>>)

ResultResp(result, id) ==
    PyDict(<<Pair("jsonrpc", Text("2.0")), Pair("result", result), Pair("id", id)>>)

Last(h) == h[Len(h)]
SetLast(h, e) == [h EXCEPT ![Len(h)] = e]

\* an exception leaves _read_loop, run() and asyncio.run(): the process dies
Die(exc, code) ==
    /\ pc' = "crashed"
    /\ history' = SetLast(history, [Last(history) EXCEPT !.raised = exc, !.code = code])

\* _read_loop, lines 175-189: decode the line, find the handler, call it
Dispatch ==
    /\ pc = "dispatch"
    /\ IF JSONDecodeError(raw) THEN
          /\ Die("JSONDecodeError", 0)
          /\ UNCHANGED <<shutdown_requested, mid, method, params, resp>>
       ELSE LET req == json_loads(raw) IN
       IF ~HasGet(req) THEN
          /\ Die("AttributeError", 0)
          /\ UNCHANGED <<shutdown_requested, mid, method, params, resp>>
       ELSE
          /\ mid' = Get(req, "id", PyNone)
          /\ method' = Get(req, "method", PyNone)
          /\ params' = Get(req, "params", PyDict(<<>>))
          /\ IF Unhashable(method') THEN
                /\ Die("TypeError", 0)
                /\ UNCHANGED <<shutdown_requested, resp>>
             ELSE LET handler == Lookup(methods, method') IN
             IF handler = "" THEN
                /\ resp' = ErrorResp(METHOD_NOT_FOUND,
                                     PyStr(<<"Unknown method ">> \o StrOf(method')), mid')
                /\ pc' = "write"
                /\ UNCHANGED <<shutdown_requested, history>>
             ELSE \E reply \in BackendReplies :
                LET out == Call(handler, params', reply, shutdown_requested)
                    entry == [Last(history) EXCEPT
                                !.handler = handler, !.executed = out.executed,
                                !.raised = out.raised, !.code = out.code,
                                !.backend = out.backend, !.flag_out = out.flag]
                IN /\ shutdown_requested' = out.flag
                   /\ history' = SetLast(history, entry)
                   /\ IF out.raised # ""
                      THEN /\ pc' = "crashed"
                           /\ UNCHANGED resp
                      ELSE /\ resp' = ResultResp(out.result, mid')
                           /\ pc' = "write"
    /\ UNCHANGED <<methods, chat_model, stdin_eof, stdout, raw>>

\* _read_loop, lines 191-195: write and flush the response, leave the loop
\* after a shutdown
WriteResponse ==
    /\ pc = "write"
    /\ stdout' = Append(stdout, json_dumps(resp))
    /\ history' = SetLast(history, [Last(history) EXCEPT
                                      !.frame = Len(stdout) + 1,
                                      !.flag_out = shutdown_requested])
    /\ pc' = IF method = Text("shutdown") THEN "done" ELSE "readline"
    /\ UNCHANGED <<shutdown_requested, methods, chat_model, stdin_eof,
                   raw, mid, method, params, resp>>

Next ==
    \/ McpServer_init
    \/ send_handshake
    \/ ReadLine
    \/ Dispatch
    \/ WriteResponse

Spec == Init /\ [][Next]_vars

(***************************************************************************)
(* Properties.                                                             *)
(***************************************************************************)
\* the server is no longer working on the i-th line
Settled(i) == i < Len(history) \/ pc \in {"readline", "done", "crashed"}
\* the process died while working on the i-th line
DiedAt(i) == i = Len(history) /\ pc = "crashed"
Responded(i) == history[i].frame # 0
\* the members of an object on the wire and the decoded value of one of them
\* (the last one of that name, as json.loads keeps it)
WKeys(w) == {w.members[j].k : j \in 1..Len(w.members)}
WGet(w, key, default) ==
    IF key \in WKeys(w)
    THEN LET j == CHOOSE n \in 1..Len(w.members) :
                     /\ w.members[n].k = key
                     /\ \A m \in (n+1)..Len(w.members) : w.members[m].k # key
         IN json_loads(w.members[j].v)
    ELSE default
\* the response to the i-th line, as the peer reads it
Frame(i) == stdout[history[i].frame]
IsObjectLine(i) == history[i].raw.t = "object"
RequestId(i) == WGet(history[i].raw, "id", PyNone)
RequestMethod(i) == WGet(history[i].raw, "method", PyNone)
RequestParams(i) == WGet(history[i].raw, "params", PyDict(<<>>))
IsResult(f) == "result" \in WKeys(f) /\ "error" \notin WKeys(f)
IsError(f) == "error" \in WKeys(f) /\ "result" \notin WKeys(f)
Result(f) == WGet(f, "result", Absent)
ErrorCode(f) == Get(WGet(f, "error", PyDict(<<>>)), "code", PyNone)
CarriesId(i) == WGet(Frame(i), "id", Absent) = RequestId(i)
IsHandshake(f) == WGet(f, "method", PyNone) = Text("mcp/server_ready")

\* C1: the response written for a request whose id is a number, a string,
\* null or absent carries that id (absent as null), same type and value.
C1_ResponseCarriesRequestId ==
    \A i \in 1..Len(history) :
        (/\ IsObjectLine(i)
         /\ RequestId(i).type \in {"int", "float", "str", "NoneType"}
         /\ Responded(i))
        => CarriesId(i)

C1_Witness ==
    \E i, j \in 1..Len(history) :
        /\ Responded(i) /\ RequestId(i) = PyInt(7) /\ IsResult(Frame(i))
        /\ Responded(j) /\ RequestId(j) = Text("7") /\ IsError(Frame(j))

\* C2: a line that is not JSON, or not a JSON object, is answered with an
\* error response of code -32700 and id null, and the loop goes on.
C2_MalformedLineAnswered ==
    \A i \in 1..Len(history) :
        (~IsObjectLine(i) /\ Settled(i))
        => /\ ~DiedAt(i)
           /\ Responded(i)
           /\ IsError(Frame(i))
           /\ ErrorCode(Frame(i)) = PyInt(-32700)
           /\ WGet(Frame(i), "id", Absent) = PyNone

IsToolCall(i) ==
    /\ IsObjectLine(i)
    /\ RequestMethod(i) = Text("invoke_tool")
    /\ LET p == RequestParams(i)
       IN p.type = "dict" /\ Keys(p) = {"name", "arguments"}
ToolName(i) == Get(RequestParams(i), "name", PyNone)
ToolArguments(i) == Get(RequestParams(i), "arguments", PyNone)

\* C3: invoke_tool with a tool name other than echo, add or chat runs no
\* part of any tool and is answered with an error response of code -32001
\* carrying the request's id, and the loop goes on.
C3_UnknownToolAnswered ==
    \A i \in 1..Len(history) :
        (IsToolCall(i) /\ ToolName(i) \notin {Text("echo"), Text("add"), Text("chat")})
        => /\ history[i].executed = {}
           /\ history[i].backend = <<>>
           /\ Settled(i) => /\ ~DiedAt(i)
                            /\ Responded(i)
                            /\ IsError(Frame(i))
                            /\ ErrorCode(Frame(i)) = PyInt(UNKNOWN_TOOL)
                            /\ CarriesId(i)

\* C4: when a registered handler raises an undeclared fault, the loop writes
\* an error response of code -32603 carrying the request's id and goes on.
C4_UndeclaredFaultAnswered ==
    \A i \in 1..Len(history) :
        (/\ history[i].handler # ""
         /\ history[i].raised \notin {"", "JsonRpcError"}
         /\ Settled(i))
        => /\ ~DiedAt(i)
           /\ Responded(i)
           /\ IsError(Frame(i))
           /\ ErrorCode(Frame(i)) = PyInt(-32603)
           /\ CarriesId(i)

\* C5: a shutdown request is answered with the confirmation string under the
\* request's id, that response is the last frame written, and the loop has
\* ended without reading another line.
C5_ShutdownAnsweredThenTerminates ==
    \A i \in 1..Len(history) :
        (IsObjectLine(i) /\ RequestMethod(i) = Text("shutdown") /\ Settled(i))
        => /\ Responded(i)
           /\ IsResult(Frame(i))
           /\ Result(Frame(i)) = Text("shutting down")
           /\ CarriesId(i)
           /\ i = Len(history)
           /\ history[i].frame = Len(stdout)
           /\ pc = "done"

IsUnregisteredName(m) ==
    /\ m.type = "str"
    /\ m \notin {Text("list_tools"), Text("invoke_tool"), Text("ping"), Text("shutdown")}

\* C6: a request whose method is a name outside the registry invokes no
\* handler, leaves shutdown_requested alone, is answered with an error
\* response of code -32601 carrying the request's id, and the loop goes back
\* to reading.
C6_UnregisteredMethodAnswered ==
    \A i \in 1..Len(history) :
        (IsObjectLine(i) /\ IsUnregisteredName(RequestMethod(i)))
        => /\ history[i].handler = ""
           /\ history[i].executed = {}
           /\ history[i].backend = <<>>
           /\ history[i].flag_out = history[i].flag_in
           /\ i = Len(history) => shutdown_requested = history[i].flag_in
           /\ ~DiedAt(i)
           /\ Settled(i) => /\ Responded(i)
                            /\ IsError(Frame(i))
                            /\ ErrorCode(Frame(i)) = PyInt(-32601)
                            /\ CarriesId(i)
                            /\ i = Len(history) => pc = "readline"

C6_Witness ==
    \E i, j \in 1..Len(history) :
        /\ i < j
        /\ IsObjectLine(i) /\ RequestMethod(i) = Text("bogus")
        /\ Responded(i) /\ ErrorCode(Frame(i)) = PyInt(-32601)
        /\ IsObjectLine(j) /\ RequestMethod(j) = EmptyStr
        /\ Responded(j) /\ pc = "readline"

\* C7: every line read gets exactly one response, the responses come in the
\* order of the lines, and the responses written are as many as the lines
\* read, or one fewer while a line is being served.
C7_OneResponsePerRequestInOrder ==
    /\ Len(history) > 0 => Len(stdout) - 1 \in {Len(history), Len(history) - 1}
    /\ \A i \in 1..Len(history) :
          /\ Responded(i) => history[i].frame = i + 1
          /\ Settled(i) => Responded(i)

\* C8: once run() has entered the loop, the output starts with the handshake
\* notification and holds no other one; before that nothing has been
\* written and nothing has been read.
C8_OneHandshakeFirst ==
    IF pc \in {"init", "run", "fatal"}
    THEN stdout = <<>> /\ history = <<>> /\ ~stdin_eof
    ELSE /\ Len(stdout) >= 1
         /\ IsHandshake(stdout[1])
         /\ \A k \in 2..Len(stdout) : ~IsHandshake(stdout[k])

C8_Witness ==
    /\ pc = "done"
    /\ Len(stdout) = 3
    /\ IsHandshake(stdout[1])

\* C9: whenever the loop has stopped reading, the last line read was a
\* shutdown request and its response has been written.
C9_OnlyShutdownEndsLoop ==
    pc \in {"done", "crashed"}
    => /\ Len(history) > 0
       /\ IsObjectLine(Len(history))
       /\ RequestMethod(Len(history)) = Text("shutdown")
       /\ Responded(Len(history))

IsEchoCall(i) ==
    /\ IsToolCall(i)
    /\ ToolName(i) = Text("echo")
    /\ LET arguments == ToolArguments(i)
       IN /\ arguments.type = "dict"
          /\ Keys(arguments) = {"message"}
          /\ Get(arguments, "message", PyNone).type = "str"

\* C10: echo of a string X is answered with the result {echo: X}, for the
\* empty string too, and changes nothing in the server.
C10_EchoRoundTrip ==
    \A i \in 1..Len(history) :
        IsEchoCall(i)
        => /\ ~DiedAt(i)
           /\ history[i].flag_out = history[i].flag_in
           /\ methods = Registry
           /\ Settled(i) =>
                /\ Responded(i)
                /\ IsResult(Frame(i))
                /\ Result(Frame(i))
                     = PyDict(<<Pair("echo", Get(ToolArguments(i), "message", PyNone))>>)

C10_Witness ==
    \E i, j \in 1..Len(history) :
        /\ IsEchoCall(i) /\ Responded(i)
        /\ Result(Frame(i)) = PyDict(<<Pair("echo", EmptyStr)>>)
        /\ IsEchoCall(j) /\ Responded(j)
        /\ Result(Frame(j)) = PyDict(<<Pair("echo", PyStr(<<QUOTE>>))>>)

\* the names of the tools in a catalog
CatalogNames(tools) == {Get(tools.items[k], "name", PyNone) : k \in 1..Len(tools.items)}
\* the names, among some tried, that invoke_tool takes without its
\* unknown-tool error
TriedToolNames == {"echo", "add", "chat", "bogus", "Echo", "list_tools", "ping"}
AcceptedToolNames ==
    {Text(n) : n \in {m \in TriedToolNames :
        invoke_tool(Text(m), PyDict(<<>>), [ok |-> TRUE, text |-> EmptyStr], FALSE).code
            # UNKNOWN_TOOL}}

\* C11: every list_tools request, whatever its params and wherever it comes
\* in the run, is answered with the same catalog, whose tool names are echo,
\* add and chat, exactly the names invoke_tool accepts.
C11_ListToolsStable ==
    \A i \in 1..Len(history) :
        (IsObjectLine(i) /\ RequestMethod(i) = Text("list_tools") /\ Settled(i))
        => /\ Responded(i)
           /\ IsResult(Frame(i))
           /\ Result(Frame(i)) = PyDict(<<Pair("tools", ToolCatalog)>>)
           /\ CatalogNames(Get(Result(Frame(i)), "tools", PyList(<<>>)))
                = {Text("echo"), Text("add"), Text("chat")}
           /\ CatalogNames(Get(Result(Frame(i)), "tools", PyList(<<>>)))
                = AcceptedToolNames

\* C12: every ping request, whatever its params mapping and whatever came
\* before, is answered with the result "pong" and changes no server state.
C12_PingAlwaysPong ==
    \A i \in 1..Len(history) :
        (/\ IsObjectLine(i)
         /\ RequestMethod(i) = Text("ping")
         /\ RequestParams(i).type = "dict"
         /\ Settled(i))
        => /\ Responded(i)
           /\ IsResult(Frame(i))
           /\ Result(Frame(i)) = Text("pong")
           /\ history[i].flag_out = history[i].flag_in

\* the value of a number, in halves
Halves(v) == IF v.type = "int" THEN 2 * v.n ELSE v.h
IsNumber(v) == v.type \in {"int", "float"}
IsAddCall(i) ==
    /\ IsToolCall(i)
    /\ ToolName(i) = Text("add")
    /\ LET arguments == ToolArguments(i)
       IN /\ arguments.type = "dict"
          /\ Keys(arguments) \subseteq {"a", "b"}
          /\ \A k \in Keys(arguments) : IsNumber(Get(arguments, k, PyNone))
ArgA(i) == Get(ToolArguments(i), "a", PyInt(0))
ArgB(i) == Get(ToolArguments(i), "b", PyInt(0))

C14_EofIsTransient ==
    /\ [](stdin_eof => pc = "readline")
    /\ [][(pc = "readline" /\ stdin_eof')
            => /\ pc' = "readline"
               /\ stdout' = stdout
               /\ history' = history
               /\ shutdown_requested' = shutdown_requested]_vars

C14_Witness ==
    /\ stdin_eof
    /\ pc = "readline"
    /\ Len(history) = 1
    /\ Len(stdout) = 2
    /\ ~shutdown_requested

\* C15: shutdown_requested is false until the shutdown handler sets it, only
\* that handler changes it, from false to true, and the loop has exited
\* normally exactly when the flag is true and the shutdown response has been
\* written.
C15_ShutdownFlag ==
    /\ [](pc \in {"init", "run", "fatal"} => ~shutdown_requested)
    /\ [](pc = "done" <=> /\ shutdown_requested
                          /\ Len(history) > 0
                          /\ history[Len(history)].handler = "shutdown"
                          /\ Responded(Len(history)))
    /\ [][shutdown_requested' # shutdown_requested
            => /\ ~shutdown_requested
               /\ shutdown_requested'
               /\ pc = "dispatch"
               /\ history'[Len(history')].handler = "shutdown"
               /\ history'[Len(history')].raised = ""]_vars

C15_Witness ==
    /\ pc = "done"
    /\ shutdown_requested
    /\ Len(history) = 2
    /\ Responded(2)

\* C16: when the connectivity check or the model construction fails, the
\* process ends there: no handshake or other frame is written, no line is
\* read, and run() is never entered without a chat model.
C16_StartupFailureIsFatal ==
    /\ pc = "fatal" => /\ chat_model = ""
                       /\ stdout = <<>>
                       /\ history = <<>>
                       /\ raw = NoLine
                       /\ ~stdin_eof
    /\ chat_model = "" => pc \in {"init", "fatal"}

C16_Witness == pc = "fatal" /\ chat_model = "" /\ stdout = <<>>

ErrorMember(f) == WGet(f, "error", PyDict(<<>>))

\* C17: every response frame holds exactly one of result and error; an error
\* holds an integer code and a string message.
C17_ResultXorError ==
    \A i \in 1..Len(history) :
        Responded(i)
        => /\ IsResult(Frame(i)) \/ IsError(Frame(i))
           /\ IsError(Frame(i))
                => /\ ErrorMember(Frame(i)).type = "dict"
                   /\ Get(ErrorMember(Frame(i)), "code", PyNone).type = "int"
                   /\ Get(ErrorMember(Frame(i)), "message", PyNone).type = "str"

C17_Witness ==
    \E i, j \in 1..Len(history) :
        /\ Responded(i) /\ IsResult(Frame(i))
        /\ Responded(j) /\ IsError(Frame(j))
        /\ ErrorCode(Frame(j)) = PyInt(-32601)

RecognisedRoles == {Text("system"), Text("user"), Text("assistant")}
RoleOfClass(cls) ==
    CASE cls = "SystemMessage" -> Text("system")
      [] cls = "HumanMessage" -> Text("user")
      [] cls = "AIMessage" -> Text("assistant")
\* a chat call whose messages are a list of objects
IsChatCall(i) ==
    /\ IsToolCall(i)
    /\ ToolName(i) = Text("chat")
    /\ LET arguments == ToolArguments(i)
           messages == Get(arguments, "messages", PyNone)
       IN /\ arguments.type = "dict"
          /\ "messages" \in Keys(arguments)
          /\ messages.type = "list"
          /\ \A k \in 1..Len(messages.items) : messages.items[k].type = "dict"
ChatMessages(i) == Get(ToolArguments(i), "messages", PyNone).items
RoleAndContent(role, content) == [role |-> role, content |-> content]
\* the messages of recognised role, in their order
Recognised(msgs) ==
    LET kept == SelectSeq(msgs, LAMBDA m : Get(m, "role", PyNone) \in RecognisedRoles)
    IN [k \in 1..Len(kept) |->
          RoleAndContent(Get(kept[k], "role", PyNone), Get(kept[k], "content", PyNone))]
\* the messages the backend was given
Given(sent) ==
    [k \in 1..Len(sent) |-> RoleAndContent(RoleOfClass(sent[k].cls), sent[k].content)]

\* C18: the chat tool hands the backend, once, the input messages of role
\* system, user or assistant, in their order; messages of another role are
\* left out and raise nothing.
C18_ChatPassesRecognisedRoles ==
    \A i \in 1..Len(history) :
        (history[i].handler # "" /\ IsChatCall(i))
        => /\ Len(history[i].backend) = 1
           /\ Given(history[i].backend[1]) = Recognised(ChatMessages(i))
           /\ history[i].raised \in {"", "BackendError"}

C18_Witness ==
    \E i \in 1..Len(history) :
        /\ IsChatCall(i)
        /\ Responded(i)
        /\ Len(ChatMessages(i)) = 4
        /\ Len(history[i].backend[1]) = 3
        /\ \E k \in 1..4 : Get(ChatMessages(i)[k], "role", PyNone) = Text("tool")

\* the capabilities the handshake announced
Announced ==
    LET caps == Get(WGet(stdout[1], "params", PyDict(<<>>)), "capabilities", PyList(<<>>))
    IN {caps.items[k] : k \in 1..Len(caps.items)}
\* the i-th line has gone through the lookup of its method
Dispatched(i) == i < Len(history) \/ pc # "dispatch"

\* C19: the registry is the one built at construction in every later state,
\* the handshake announces exactly its method names, and a request reaches a
\* handler exactly when its method was announced.
C19_RegistryFixedAndAnnounced ==
    /\ pc \notin {"init", "fatal"} => methods = Registry
    /\ Len(stdout) >= 1 =>
          LET announced == Announced
          IN /\ announced = {Text(k) : k \in Keys(methods)}
             /\ \A i \in 1..Len(history) :
                   (IsObjectLine(i) /\ Dispatched(i))
                   => (history[i].handler # "" <=> RequestMethod(i) \in announced)

C19_Witness ==
    \E i, j \in 1..Len(history) :
        /\ Dispatched(i) /\ history[i].handler = "shutdown"
        /\ RequestMethod(i) \in Announced
        /\ Dispatched(j) /\ history[j].handler = ""
        /\ RequestMethod(j) = Text("bogus")

\* C20: a request without a method member, or with a null one, invokes no
\* handler, is answered with an error response of code -32601 carrying the
\* request's id, and the loop goes back to reading.
C20_MissingMethodAnswered ==
    \A i \in 1..Len(history) :
        (IsObjectLine(i) /\ RequestMethod(i) = PyNone)
        => /\ history[i].handler = ""
           /\ history[i].executed = {}
           /\ history[i].backend = <<>>
           /\ ~DiedAt(i)
           /\ Settled(i) => /\ Responded(i)
                            /\ IsError(Frame(i))
                            /\ ErrorCode(Frame(i)) = PyInt(-32601)
                            /\ CarriesId(i)
                            /\ i = Len(history) => pc = "readline"

C20_Witness ==
    \E i, j \in 1..Len(history) :
        /\ IsObjectLine(i) /\ "method" \notin WKeys(history[i].raw)
        /\ Responded(i) /\ ErrorCode(Frame(i)) = PyInt(-32601)
        /\ IsObjectLine(j) /\ "method" \in WKeys(history[j].raw)
        /\ RequestMethod(j) = PyNone
        /\ Responded(j) /\ ErrorCode(Frame(j)) = PyInt(-32601)
        /\ pc = "readline"

====
